---- MODULE Spec2Model ----
(***************************************************************************)
(* LLM Provider Tester: the adapter layer of src/lib/api.ts                *)
(* (validateApiKey, sendPromptToLLM) and the interactive shell of          *)
(* src/App.tsx (handleValidateApiKey, handleSendPrompt and the controls    *)
(* that trigger them).                                                     *)
(*                                                                         *)
(* Two specifications share the definitions of the adapter layer:          *)
(*   SpecCore  a caller invokes the two functions with arbitrary           *)
(*             arguments against an arbitrary network;                     *)
(*   Spec      the shell: user events and call completions interleave.     *)
(***************************************************************************)
EXTENDS Integers, Sequences, FiniteSets, TLC

(***************************************************************************)
(* Bounds.                                                                 *)
(***************************************************************************)
\* longest credential / prompt string a caller of the adapter layer passes
MaxLen == 2

(***************************************************************************)
(* JavaScript strings that the code trims are sequences of characters;     *)
(* " " stands for any white space character, the letters for any other.    *)
(***************************************************************************)
WhiteSpace == {" "}

Chars == WhiteSpace \cup {"k"}

RECURSIVE StringsUpTo(_)
StringsUpTo(n) ==
    IF n = 0 THEN {<<>>}
    ELSE LET shorter == StringsUpTo(n - 1)
         IN  shorter \cup {Append(s, c) : s \in shorter, c \in Chars}

\* String.prototype.trimStart / trimEnd / trim
RECURSIVE TrimStart(_)
TrimStart(s) ==
    IF s # <<>> /\ Head(s) \in WhiteSpace THEN TrimStart(Tail(s)) ELSE s

RECURSIVE TrimEnd(_)
TrimEnd(s) ==
    IF s # <<>> /\ s[Len(s)] \in WhiteSpace
    THEN TrimEnd(SubSeq(s, 1, Len(s) - 1))
    ELSE s

Trim(s) == TrimEnd(TrimStart(s))

(***************************************************************************)
(* JavaScript values as they come out of response.json() and as the code   *)
(* puts them into its results: a tag, a string payload, and the own        *)
(* properties (array elements are the properties "0", "1", ...).           *)
(***************************************************************************)
NoProps == [k \in {} |-> 0]

JValue(t, s, props) == [t |-> t, s |-> s, props |-> props]

Undefined == JValue("undefined", "", NoProps)

JNull == JValue("null", "", NoProps)

JStr(s) == JValue("string", s, NoProps)

JObj(props) == JValue("object", "", props)

JArr1(elem) == JValue("object", "", [i \in {"0"} |-> elem])

JArr0 == JValue("object", "", NoProps)

\* a thrown Error instance with its message, and a thrown non-Error value
ErrorValue(msg) == JValue("Error", msg, NoProps)

NonErrorThrown == JValue("thrown", "", NoProps)

IsThrow(v) == v.t \in {"Error", "thrown"}

\* the engine's message of a property read on undefined or null
TypeErrorMessage == "Cannot read properties of undefined"

\* the engine's message when the response body is not JSON
SyntaxErrorMessage == "Unexpected token in JSON"

\* the browser's message when fetch rejects
FetchErrorMessage == "Failed to fetch"

\* v.key : a TypeError on undefined and null, undefined for an absent property.
\* A throw met while evaluating v propagates.
Get(v, key) ==
    IF IsThrow(v) THEN v
    ELSE IF v.t \in {"undefined", "null"} THEN ErrorValue(TypeErrorMessage)
    ELSE IF key \in DOMAIN v.props THEN v.props[key]
    ELSE Undefined

\* v?.key : undefined on undefined and null
OptGet(v, key) ==
    IF IsThrow(v) THEN v
    ELSE IF v.t \in {"undefined", "null"} THEN Undefined
    ELSE Get(v, key)

\* ToBoolean
Truthy(v) == ~(v.t \in {"undefined", "null"} \/ (v.t = "string" /\ v.s = ""))

\* a || fallback, with a and the fallback strings here
OrElse(v, fallback) == IF Truthy(v) THEN v ELSE fallback

\* String(v) as a template literal `${v}` converts v
TemplateString(v) ==
    IF v.t = "string" THEN v.s
    ELSE IF v.t = "object" THEN "[object Object]"
    ELSE v.t

(***************************************************************************)
(* The network, as one call of fetch sees it: fetch rejects with a thrown  *)
(* value, or resolves to a response with a status (ok = 2xx) and a body    *)
(* that response.json() decodes to a value or throws a SyntaxError on.     *)
(***************************************************************************)
FetchRejects(thrown) ==
    [rejects |-> TRUE, thrown |-> thrown, ok |-> FALSE, json |-> Undefined]

Responds(ok, json) ==
    [rejects |-> FALSE, thrown |-> Undefined, ok |-> ok, json |-> json]

Undecodable == ErrorValue(SyntaxErrorMessage)

\* the bodies the three services document
ErrorBody(message) == JObj([error |-> JObj([message |-> message])])

OpenAIBody(content) ==
    JObj([choices |-> JArr1(JObj([message |-> JObj([content |-> content])]))])

AnthropicBody(text) == JObj([content |-> JArr1(JObj([text |-> text]))])

GeminiBody(text) ==
    JObj([candidates |->
            JArr1(JObj([content |->
                          JObj([parts |-> JArr1(JObj([text |-> text]))])]))])

Texts == {"hi there"}

Details == {"invalid x-api-key"}

\* bodies that stop short of the documented shape at every depth
MalformedBodies ==
    { Undecodable, JNull, JObj(NoProps),
      JObj([error |-> JNull]), JObj([error |-> JObj(NoProps)]),
      ErrorBody(JStr("")), ErrorBody(JObj(NoProps)),
      JObj([choices |-> JArr0]),
      JObj([choices |-> JArr1(JObj(NoProps))]),
      JObj([choices |-> JArr1(JObj([message |-> JObj(NoProps)]))]),
      OpenAIBody(JNull), OpenAIBody(JStr("")),
      JObj([content |-> JArr0]),
      AnthropicBody(Undefined),
      JObj([candidates |-> JArr0]),
      JObj([candidates |-> JArr1(JObj(NoProps))]),
      JObj([candidates |-> JArr1(JObj([content |-> JObj(NoProps)]))]),
      JObj([candidates |-> JArr1(JObj([content |-> JObj([parts |-> JArr0])]))]),
      GeminiBody(Undefined) }

Bodies ==
    MalformedBodies
      \cup {ErrorBody(JStr(d)) : d \in Details}
      \cup {OpenAIBody(JStr(t)) : t \in Texts}
      \cup {AnthropicBody(JStr(t)) : t \in Texts}
      \cup {GeminiBody(JStr(t)) : t \in Texts}

Nets ==
    {FetchRejects(ErrorValue(FetchErrorMessage)), FetchRejects(NonErrorThrown)}
      \cup {Responds(ok, b) : ok \in BOOLEAN, b \in Bodies}

(***************************************************************************)
(* src/lib/api.ts                                                          *)
(***************************************************************************)
KnownProviders == {"openai", "anthropic", "gemini"}

\* any other value a caller may pass at run time
ProviderValues == KnownProviders \cup {"mistral"}

\* the name each branch writes into its messages
ProviderName(provider) ==
    CASE provider = "openai" -> "OpenAI"
      [] provider = "anthropic" -> "Anthropic"
      [] provider = "gemini" -> "Gemini"

\* interface ApiResponse
ApiResponse(success, message, data) ==
    [success |-> success, message |-> message, data |-> data]

Failure(text) == ApiResponse(FALSE, JStr(text), Undefined)

\* How the body of an async function ends: it returns res or throws thrown,
\* having issued netCalls fetches and read bodyReads response bodies.
Returns(res, netCalls, bodyReads) ==
    [threw |-> FALSE, thrown |-> Undefined, res |-> res,
     netCalls |-> netCalls, bodyReads |-> bodyReads]

Throws(thrown, netCalls, bodyReads) ==
    [threw |-> TRUE, thrown |-> thrown,
     res |-> ApiResponse(FALSE, Undefined, Undefined),
     netCalls |-> netCalls, bodyReads |-> bodyReads]

\* ErrorDetail reading error.message instead of error.error.message
ErrorDetail_WrongPath(error) ==
    LET message == Get(error, "message")
    IN  IF IsThrow(message) THEN message
        ELSE OrElse(message, JStr("Unknown error"))

\* error.error?.message || 'Unknown error'
ErrorDetail(error) ==
    LET message == OptGet(Get(error, "error"), "message")
    IN  IF IsThrow(message) THEN message
        ELSE OrElse(message, JStr("Unknown error"))

\* ValidateBranch with a second fetch after a rejected one
ValidateBranch_Retry(provider, net) ==
    IF net.rejects THEN Throws(net.thrown, 2, 0)
    ELSE IF net.ok
    THEN Returns(ApiResponse(TRUE,
                             JStr(ProviderName(provider) \o " API key is valid"),
                             Undefined), 1, 0)
    ELSE LET detail == OrElse(OptGet(Get(net.json, "error"), "message"),
                              JStr("Unknown error"))
         IN  IF IsThrow(detail) THEN Throws(detail, 1, 1)
             ELSE Returns(Failure("Invalid " \o ProviderName(provider)
                                     \o " API key: " \o TemplateString(detail)), 1, 1)

\* one provider branch of validateApiKey: the fetch and the reading of the response
ValidateBranch(provider, net) ==
    IF net.rejects THEN Throws(net.thrown, 1, 0)
    ELSE IF net.ok
    THEN Returns(ApiResponse(TRUE,
                             JStr(ProviderName(provider) \o " API key is valid"),
                             Undefined), 1, 0)
    ELSE LET error == net.json
             detail == ErrorDetail(error)
         IN  IF IsThrow(detail) THEN Throws(detail, 1, 1)
             ELSE Returns(Failure("Invalid " \o ProviderName(provider)
                                     \o " API key: " \o TemplateString(detail)), 1, 1)

\* ValidateTry with the key compared to "" without trim()
ValidateTry_NoTrim(provider, apiKey, net) ==
    IF apiKey = <<>> THEN Returns(Failure("API key cannot be empty"), 0, 0)
    ELSE IF provider \in KnownProviders THEN ValidateBranch(provider, net)
    ELSE Returns(Failure("Unknown provider"), 0, 0)

\* the try block of validateApiKey
ValidateTry(provider, apiKey, net) ==
    IF Trim(apiKey) = <<>> THEN Returns(Failure("API key cannot be empty"), 0, 0)
    ELSE IF provider \in KnownProviders THEN ValidateBranch(provider, net)
    ELSE Returns(Failure("Unknown provider"), 0, 0)

\* a catch block: error instanceof Error ? error.message : 'Unknown error'
Caught(prefix, c) ==
    IF c.threw
    THEN Returns(Failure(prefix \o (IF c.thrown.t = "Error" THEN c.thrown.s
                                    ELSE "Unknown error")),
                 c.netCalls, c.bodyReads)
    ELSE c

validateApiKey(provider, apiKey, net) ==
    Caught("Error validating API key: ", ValidateTry(provider, apiKey, net))

\* ExtractText with Gemini's text read at candidates[0].content.text
ExtractText_ShortPath(provider, data) ==
    CASE provider = "openai" ->
           Get(Get(Get(Get(data, "choices"), "0"), "message"), "content")
      [] provider = "anthropic" ->
           Get(Get(Get(data, "content"), "0"), "text")
      [] provider = "gemini" ->
           Get(Get(Get(Get(data, "candidates"), "0"), "content"), "text")

\* the text each provider branch of sendPromptToLLM takes out of the body
ExtractText(provider, data) ==
    CASE provider = "openai" ->
           Get(Get(Get(Get(data, "choices"), "0"), "message"), "content")
      [] provider = "anthropic" ->
           Get(Get(Get(data, "content"), "0"), "text")
      [] provider = "gemini" ->
           Get(Get(Get(Get(Get(Get(data, "candidates"), "0"), "content"),
                       "parts"), "0"), "text")

\* one provider branch of sendPromptToLLM
SendBranch(provider, net) ==
    IF net.rejects THEN Throws(net.thrown, 1, 0)
    ELSE IF net.ok
    THEN LET text == ExtractText(provider, net.json)
         IN  IF IsThrow(text) THEN Throws(text, 1, 1)
             ELSE Returns(ApiResponse(TRUE, Undefined, text), 1, 1)
    ELSE LET detail == ErrorDetail(net.json)
         IN  IF IsThrow(detail) THEN Throws(detail, 1, 1)
             ELSE Returns(Failure(ProviderName(provider) \o " API error: "
                                     \o TemplateString(detail)), 1, 1)

\* SendTry with the prompt checked before the key
SendTry_PromptFirst(provider, model, apiKey, prompt, net) ==
    IF Trim(prompt) = <<>> THEN Returns(Failure("Prompt cannot be empty"), 0, 0)
    ELSE IF Trim(apiKey) = <<>> THEN Returns(Failure("API key is required"), 0, 0)
    ELSE IF provider \in KnownProviders THEN SendBranch(provider, net)
    ELSE Returns(Failure("Unknown provider"), 0, 0)

\* SendTry with the provider checked before the inputs
SendTry_ProviderFirst(provider, model, apiKey, prompt, net) ==
    IF provider \notin KnownProviders THEN Returns(Failure("Unknown provider"), 0, 0)
    ELSE IF Trim(apiKey) = <<>> THEN Returns(Failure("API key is required"), 0, 0)
    ELSE IF Trim(prompt) = <<>> THEN Returns(Failure("Prompt cannot be empty"), 0, 0)
    ELSE SendBranch(provider, net)

\* the try block of sendPromptToLLM
SendTry(provider, model, apiKey, prompt, net) ==
    IF Trim(apiKey) = <<>> THEN Returns(Failure("API key is required"), 0, 0)
    ELSE IF Trim(prompt) = <<>> THEN Returns(Failure("Prompt cannot be empty"), 0, 0)
    ELSE IF provider \in KnownProviders THEN SendBranch(provider, net)
    ELSE Returns(Failure("Unknown provider"), 0, 0)

sendPromptToLLM(provider, model, apiKey, prompt, net) ==
    Caught("Error sending prompt: ", SendTry(provider, model, apiKey, prompt, net))

(***************************************************************************)
(* State.                                                                  *)
(***************************************************************************)
VARIABLES
    call,               \* SpecCore: the one invocation of the adapter layer under way
    provider,           \* App.tsx useState: the selected provider
    model,              \* the selected model
    apiKey,             \* the key input's text
    savedApiKey,        \* the key kept after a successful validation
    isValidKey,         \* "null", "true" or "false"
    isValidating,       \* busy flag of Save
    validationMessage,
    prompt,             \* the prompt input's text
    response,
    isLoading,          \* busy flag of Send
    errorMessage,
    validateCalls,      \* the validateApiKey calls that runs of handleValidateApiKey await
    sendCalls,          \* the sendPromptToLLM calls that runs of handleSendPrompt await
    validated           \* history: the <<provider, key>> a validateApiKey call succeeded for

coreVars == <<call>>

shellVars ==
    <<provider, model, apiKey, savedApiKey, isValidKey, isValidating,
      validationMessage, prompt, response, isLoading, errorMessage,
      validateCalls, sendCalls, validated>>

vars == <<call, provider, model, apiKey, savedApiKey, isValidKey, isValidating,
          validationMessage, prompt, response, isLoading, errorMessage,
          validateCalls, sendCalls, validated>>

(***************************************************************************)
(* SpecCore: a caller of the adapter layer.                                *)
(***************************************************************************)
CoreStrings == StringsUpTo(MaxLen)

CoreModels == {"gpt-4"}

NoNet == Responds(FALSE, Undefined)

NoOutcome == Returns(ApiResponse(FALSE, Undefined, Undefined), 0, 0)

IdleCall ==
    [pc |-> "idle", op |-> "none", provider |-> "openai", model |-> "",
     apiKey |-> <<>>, prompt |-> <<>>, answered |-> FALSE, net |-> NoNet,
     out |-> NoOutcome]

\* the function the call runs, against the network net
Run(c, net) ==
    IF c.op = "validate" THEN validateApiKey(c.provider, c.apiKey, net)
    ELSE sendPromptToLLM(c.provider, c.model, c.apiKey, c.prompt, net)

\* the call reaches a fetch: it suspends until the network answers
IssuesFetch(c) == \E net \in Nets : Run(c, net).netCalls > 0

\* The function runs up to its first await: it returns at once when it
\* issues no fetch.
Invoke(op, p, m, key, text) ==
    LET c == [IdleCall EXCEPT !.op = op, !.provider = p, !.model = m,
                              !.apiKey = key, !.prompt = text]
    IN  IF IssuesFetch(c)
        THEN [c EXCEPT !.pc = "fetching"]
        ELSE [c EXCEPT !.pc = "done", !.out = Run(c, NoNet)]

\* the caller invokes validateApiKey
InvokeValidate ==
    /\ call.pc = "idle"
    /\ \E p \in ProviderValues, key \in CoreStrings :
          call' = Invoke("validate", p, "", key, <<>>)
    /\ UNCHANGED shellVars

\* the caller invokes sendPromptToLLM
InvokeSend ==
    /\ call.pc = "idle"
    /\ \E p \in ProviderValues, m \in CoreModels,
          key \in CoreStrings, text \in CoreStrings :
          call' = Invoke("send", p, m, key, text)
    /\ UNCHANGED shellVars

\* The network answers the fetch and the function runs to its end.
NetworkAnswers ==
    /\ call.pc = "fetching"
    /\ \E net \in Nets :
          call' = [call EXCEPT !.pc = "done", !.answered = TRUE, !.net = net,
                                 !.out = Run(call, net)]
    /\ UNCHANGED shellVars

\* The caller takes the result.
TakeResult ==
    /\ call.pc = "done"
    /\ call' = IdleCall
    /\ UNCHANGED shellVars

(***************************************************************************)
(* Spec: src/App.tsx.  An event handler runs to its first await in one     *)
(* step: React renders, with the buttons' disabled attributes, before the  *)
(* next event is delivered.  showApiKey only switches the input's type and *)
(* is left out.                                                            *)
(***************************************************************************)
\* modelOptions
modelOptions ==
    [openai |-> <<"gpt-4", "gpt-4o", "o4-mini", "o3-mini">>,
     anthropic |-> <<"claude-3-5-haiku-20241022", "claude-3-7-sonnet-20250219",
                     "claude-sonnet-4-20250514">>,
     gemini |-> <<"gemini-1.5-pro", "gemini-2.0-flash", "gemini-1.0-pro">>]

\* what the user types into the key input and into the prompt textarea
UserKeys == {<<>>, <<" ">>, <<"k">>}

UserPrompts == {<<>>, <<" ">>, <<"p">>}

\* the places of the model select's options the user picks from
UserModelPicks == {1, 2}

\* how the network answers the shell's calls: fetch rejects; a 2xx with each
\* service's documented body, with a body that has no text and with an empty
\* one; a non-2xx with an error body and with a body that is not JSON
ShellNets ==
    {FetchRejects(ErrorValue(FetchErrorMessage))}
      \cup {Responds(TRUE, b) :
              b \in {OpenAIBody(JStr("hi there")), AnthropicBody(JStr("hi there")),
                     GeminiBody(JStr("hi there")), OpenAIBody(JNull),
                     JObj(NoProps)}}
      \cup {Responds(FALSE, b) :
              b \in {ErrorBody(JStr("invalid x-api-key")), Undecodable}}

\* boolean | null of isValidKey
BoolString(b) == IF b THEN "true" ELSE "false"

\* the sequence calls without its i-th element
Without(calls, i) == SubSeq(calls, 1, i - 1) \o SubSeq(calls, i + 1, Len(calls))

\* the useState initial values, and the effect of the first render
Init ==
    /\ call = IdleCall
    /\ provider = "openai"
    /\ model = modelOptions["openai"][1]
    /\ apiKey = <<>>
    /\ savedApiKey = <<>>
    /\ isValidKey = "null"
    /\ isValidating = FALSE
    /\ validationMessage = JStr("")
    /\ prompt = <<>>
    /\ response = JStr("")
    /\ isLoading = FALSE
    /\ errorMessage = JStr("")
    /\ validateCalls = <<>>
    /\ sendCalls = <<>>
    /\ validated = {}

\* the provider select's onChange, and the effect on [provider]
ChangeProvider ==
    \E p \in KnownProviders \ {provider} :
        /\ provider' = p
        /\ model' = modelOptions[p][1]
        /\ UNCHANGED <<call, apiKey, savedApiKey, isValidKey, isValidating,
                       validationMessage, prompt, response, isLoading,
                       errorMessage, validateCalls, sendCalls, validated>>

\* the model select's onChange
SelectModel ==
    \E i \in DOMAIN modelOptions[provider] \cap UserModelPicks :
        /\ model' = modelOptions[provider][i]
        /\ model' # model
        /\ UNCHANGED <<call, provider, apiKey, savedApiKey, isValidKey,
                       isValidating, validationMessage, prompt, response,
                       isLoading, errorMessage, validateCalls, sendCalls, validated>>

\* the key input's onChange
EditApiKey ==
    \E key \in UserKeys \ {apiKey} :
        /\ apiKey' = key
        /\ UNCHANGED <<call, provider, model, savedApiKey, isValidKey,
                       isValidating, validationMessage, prompt, response,
                       isLoading, errorMessage, validateCalls, sendCalls, validated>>

\* the prompt textarea's onChange
EditPrompt ==
    \E text \in UserPrompts \ {prompt} :
        /\ prompt' = text
        /\ UNCHANGED <<call, provider, model, apiKey, savedApiKey, isValidKey,
                       isValidating, validationMessage, response, isLoading,
                       errorMessage, validateCalls, sendCalls, validated>>

\* a Save button that is never disabled
SaveDisabled_Never == FALSE

\* disabled={isValidating} of the Save button
SaveDisabled == isValidating

\* disabled={!savedApiKey || !prompt.trim() || isLoading} of the Send button
SendDisabled == savedApiKey = <<>> \/ Trim(prompt) = <<>> \/ isLoading

\* handleValidateApiKey from the return of validateApiKey on: the rest of the
\* try block, the catch and the finally. vc holds what the handler's closure
\* captured when Save was clicked.
ValidateSettles(vc, net) ==
    LET out == validateApiKey(vc.provider, vc.apiKey, net)
    IN  /\ IF out.threw
           THEN /\ isValidKey' = "false"
                /\ validationMessage' = JStr("Error validating API key")
                /\ UNCHANGED <<savedApiKey, validated>>
           ELSE /\ isValidKey' = BoolString(out.res.success)
                /\ validationMessage' = OrElse(out.res.message, JStr(""))
                /\ savedApiKey' = IF out.res.success THEN vc.apiKey ELSE savedApiKey
                /\ validated' = IF out.res.success
                                THEN validated \cup {<<vc.provider, vc.apiKey>>}
                                ELSE validated
        /\ isValidating' = FALSE

\* a click on Save: handleValidateApiKey up to its await
ClickSave ==
    /\ ~SaveDisabled
    /\ LET vc == [provider |-> provider, apiKey |-> apiKey]
           c == [IdleCall EXCEPT !.op = "validate", !.provider = provider,
                                 !.apiKey = apiKey]
       IN  IF Trim(apiKey) = <<>>
           THEN /\ isValidKey' = "false"
                /\ validationMessage' = JStr("API key cannot be empty")
                /\ UNCHANGED <<isValidating, savedApiKey, validateCalls, validated>>
           ELSE IF IssuesFetch(c)
           THEN /\ isValidating' = TRUE
                /\ validationMessage' = JStr("")
                /\ validateCalls' = Append(validateCalls, vc)
                /\ UNCHANGED <<isValidKey, savedApiKey, validated>>
           ELSE ValidateSettles(vc, NoNet) /\ UNCHANGED validateCalls
    /\ UNCHANGED <<call, provider, model, apiKey, prompt, response, isLoading,
                   errorMessage, sendCalls>>

\* the network answers a pending validateApiKey call and its handler resumes
ValidateCompletes ==
    /\ \E i \in DOMAIN validateCalls, net \in ShellNets :
          /\ ValidateSettles(validateCalls[i], net)
          /\ validateCalls' = Without(validateCalls, i)
    /\ UNCHANGED <<call, provider, model, apiKey, prompt, response, isLoading,
                   errorMessage, sendCalls>>

\* SendSettles with setIsLoading(false) in the success branch instead of a finally
SendSettles_NoFinally(sc, net) ==
    LET out == sendPromptToLLM(sc.provider, sc.model, sc.apiKey, sc.prompt, net)
    IN  IF ~out.threw /\ out.res.success /\ Truthy(out.res.data)
        THEN /\ response' = out.res.data
             /\ errorMessage' = JStr("")
             /\ isLoading' = FALSE
        ELSE /\ errorMessage' = OrElse(out.res.message,
                                       JStr("Unknown error occurred"))
             /\ response' = JStr("")
             /\ UNCHANGED isLoading

\* handleSendPrompt from the return of sendPromptToLLM on: the rest of the try
\* block, the catch and the finally
SendSettles(sc, net) ==
    LET out == sendPromptToLLM(sc.provider, sc.model, sc.apiKey, sc.prompt, net)
    IN  /\ IF out.threw
           THEN /\ errorMessage' = JStr("Error sending prompt to LLM")
                /\ response' = JStr("")
           ELSE IF out.res.success /\ Truthy(out.res.data)
           THEN /\ response' = out.res.data
                /\ errorMessage' = JStr("")
           ELSE /\ errorMessage' = OrElse(out.res.message,
                                          JStr("Unknown error occurred"))
                /\ response' = JStr("")
        /\ isLoading' = FALSE

\* a click on Send: handleSendPrompt up to its await
ClickSend ==
    /\ ~SendDisabled
    /\ LET sc == [provider |-> provider, model |-> model,
                  apiKey |-> savedApiKey, prompt |-> prompt]
           c == [IdleCall EXCEPT !.op = "send", !.provider = provider,
                                 !.model = model, !.apiKey = savedApiKey,
                                 !.prompt = prompt]
       IN  IF Trim(prompt) = <<>> \/ savedApiKey = <<>>
           THEN UNCHANGED <<response, isLoading, errorMessage, sendCalls>>
           ELSE IF IssuesFetch(c)
           THEN /\ isLoading' = TRUE
                /\ response' = JStr("")
                /\ errorMessage' = JStr("")
                /\ sendCalls' = Append(sendCalls, sc)
           ELSE SendSettles(sc, NoNet) /\ UNCHANGED sendCalls
    /\ UNCHANGED <<call, provider, model, apiKey, savedApiKey, isValidKey,
                   isValidating, validationMessage, prompt, validateCalls,
                   validated>>

\* the network answers a pending sendPromptToLLM call and its handler resumes
SendCompletes ==
    /\ \E i \in DOMAIN sendCalls, net \in ShellNets :
          /\ SendSettles(sendCalls[i], net)
          /\ sendCalls' = Without(sendCalls, i)
    /\ UNCHANGED <<call, provider, model, apiKey, savedApiKey, isValidKey,
                   isValidating, validationMessage, prompt, validateCalls,
                   validated>>

(***************************************************************************)
(* Specifications.                                                         *)
(***************************************************************************)
NextCore == InvokeValidate \/ InvokeSend \/ NetworkAnswers \/ TakeResult

SpecCore == Init /\ [][NextCore]_vars

Next ==
    \/ ChangeProvider
    \/ SelectModel
    \/ EditApiKey
    \/ EditPrompt
    \/ ClickSave
    \/ ValidateCompletes
    \/ ClickSend
    \/ SendCompletes

Spec == Init /\ [][Next]_vars

(***************************************************************************)
(* Properties of the adapter layer, checked under SpecCore.                *)
(***************************************************************************)
\* empty or white space only
IsBlank(str) == \A i \in DOMAIN str : str[i] \in WhiteSpace

Done == call.pc = "done"

\* the last word of a failure result
Fails(text) == call.out.res = ApiResponse(FALSE, JStr(text), Undefined)

\* the body each service documents, by provider
ProviderBody(p, text) ==
    CASE p = "openai" -> OpenAIBody(text)
      [] p = "anthropic" -> AnthropicBody(text)
      [] p = "gemini" -> GeminiBody(text)

\* the response carries a string, possibly empty, at the provider's place
WellFormed(p, body) == \E t \in Texts \cup {""} : body = ProviderBody(p, JStr(t))

\* the messages of the values thrown inside the two functions
ThrownMessages ==
    {FetchErrorMessage, SyntaxErrorMessage, TypeErrorMessage, "Unknown error"}

ExceptionPrefix == IF call.op = "validate" THEN "Error validating API key: "
                   ELSE "Error sending prompt: "

\* the call ended on one of the failures the specification lists: an empty
\* input, an unknown provider, a network failure, a non-2xx response, a body
\* that cannot be decoded or lacks the expected fields
FailurePath ==
    \/ ~call.answered
    \/ call.net.rejects
    \/ ~call.net.ok
    \/ call.op = "send" /\ ~WellFormed(call.provider, call.net.json)

\* C1 (as claimed): every invocation ends with one result and raises nothing; on
\* every failure path the result has success = false and a message, and when
\* the failure is an exception the message carries the function's prefix.
C1_EveryFailureNormalised ==
    Done =>
      /\ ~call.out.threw
      /\ FailurePath =>
           /\ ~call.out.res.success
           /\ call.out.res.message.t = "string"
           /\ call.out.res.message.s # ""
      /\ (call.answered /\ (call.net.rejects \/ (~call.net.ok /\ call.net.json = Undecodable)))
           => \E m \in ThrownMessages :
                 call.out.res.message = JStr(ExceptionPrefix \o m)

\* C2: validate with an empty or white-space credential fails with "API key
\* cannot be empty" for every provider value, and no fetch is issued.
C2_EmptyKeyRejected ==
    (call.op = "validate" /\ IsBlank(call.apiKey)) =>
      /\ call.pc # "fetching"
      /\ Done => (Fails("API key cannot be empty") /\ call.out.netCalls = 0
                    /\ ~call.answered)

C2_Witness ==
    /\ Done /\ call.op = "validate" /\ call.apiKey = <<" ">>
    /\ call.provider = "mistral"
    /\ Fails("API key cannot be empty")

\* C3: dispatch checks the credential first and the prompt second, both
\* before any fetch: a blank credential gives "API key is required" whatever
\* the prompt, a blank prompt with a credential "Prompt cannot be empty".
C3_InputChecksOrdered ==
    (call.op = "send" /\ (IsBlank(call.apiKey) \/ IsBlank(call.prompt))) =>
      /\ call.pc # "fetching"
      /\ Done =>
           /\ call.out.netCalls = 0 /\ ~call.answered
           /\ IsBlank(call.apiKey) => Fails("API key is required")
           /\ ~IsBlank(call.apiKey) => Fails("Prompt cannot be empty")

C3_Witness ==
    /\ Done /\ call.op = "send"
    /\ call.apiKey = <<" ">> /\ call.prompt = <<>>
    /\ Fails("API key is required")

\* C4: for a provider outside the three, validate and dispatch fail with
\* "Unknown provider" once the input checks pass, without a fetch; with an
\* empty credential the credential error is reported instead.
C4_UnknownProvider ==
    (call.op # "none" /\ call.provider \notin KnownProviders) =>
      /\ call.pc # "fetching"
      /\ Done =>
           /\ call.out.netCalls = 0 /\ ~call.answered
           /\ IF IsBlank(call.apiKey)
              THEN IF call.op = "validate" THEN Fails("API key cannot be empty")
                   ELSE Fails("API key is required")
              ELSE IF call.op = "send" /\ IsBlank(call.prompt)
              THEN Fails("Prompt cannot be empty")
              ELSE Fails("Unknown provider")

C4_Witness ==
    /\ Done /\ call.op = "send" /\ call.provider = "mistral"
    /\ ~IsBlank(call.apiKey) /\ ~IsBlank(call.prompt)
    /\ Fails("Unknown provider")

\* the call reaches its provider branch
ReachesFetch ==
    /\ ~IsBlank(call.apiKey)
    /\ call.op = "send" => ~IsBlank(call.prompt)
    /\ call.provider \in KnownProviders

\* C5 (as claimed): every invocation of validate issues exactly one network call.
C5_ExactlyOneCall ==
    (Done /\ call.op = "validate") => call.out.netCalls = 1

\* C5 (amended): an invocation of validate issues at most one network call and
\* never retries: exactly one when the credential is not blank and the
\* provider is one of the three, none otherwise.
C5_AtMostOneCall ==
    call.op = "validate" =>
      /\ call.pc = "fetching" => ReachesFetch
      /\ Done =>
           /\ call.out.netCalls = (IF ReachesFetch THEN 1 ELSE 0)
           /\ call.answered <=> ReachesFetch

C5_Witness ==
    /\ Done /\ call.op = "validate" /\ call.answered
    /\ call.net.rejects /\ call.out.netCalls = 1

\* the provider answered the call with a non-2xx response
NonOkAnswer == Done /\ call.answered /\ ~call.net.rejects /\ ~call.net.ok

\* the message a provider-attributed failure carries, by function
Attributed(detail) ==
    IF call.op = "validate"
    THEN JStr("Invalid " \o ProviderName(call.provider) \o " API key: " \o detail)
    ELSE JStr(ProviderName(call.provider) \o " API error: " \o detail)

\* the error body's error.message when it is a non-empty string, or the fallback
ClaimedDetail(body) ==
    IF \E d \in Details : body = ErrorBody(JStr(d))
    THEN (CHOOSE d \in Details : body = ErrorBody(JStr(d)))
    ELSE "Unknown error"

\* C6 (as claimed): whenever the provider answers non-2xx the result is the
\* provider-attributed failure, with the body's error.message or "Unknown error".
C6_NonOkAlwaysAttributed ==
    NonOkAnswer =>
      /\ ~call.out.res.success
      /\ \/ call.out.res.message = Attributed(ClaimedDetail(call.net.json))
         \/ /\ call.net.json = ErrorBody(JObj(NoProps))
            /\ call.out.res.message = Attributed("[object Object]")

\* C6 (amended): when the provider answers non-2xx and the body decodes to a
\* value other than null, the result is the provider-attributed failure; its
\* detail is error.message when that is a non-empty string, the template's
\* conversion of it when it is another truthy value, and "Unknown error" when
\* error or error.message is absent, null or empty. When the body cannot be
\* decoded or is null the result is the function's exception failure.
C6_NonOkAttributedWhenDecodable ==
    NonOkAnswer =>
      /\ ~call.out.res.success
      /\ call.out.bodyReads = 1
      /\ call.out.res.message =
           IF call.net.json = Undecodable
             THEN JStr(ExceptionPrefix \o SyntaxErrorMessage)
           ELSE IF call.net.json = JNull
             THEN JStr(ExceptionPrefix \o TypeErrorMessage)
           ELSE IF \E d \in Details : call.net.json = ErrorBody(JStr(d))
             THEN Attributed(ClaimedDetail(call.net.json))
           ELSE IF call.net.json = ErrorBody(JObj(NoProps))
             THEN Attributed("[object Object]")
           ELSE Attributed("Unknown error")

C6_Witness ==
    /\ NonOkAnswer /\ call.op = "validate" /\ call.provider = "anthropic"
    /\ call.net.json = ErrorBody(JStr("invalid x-api-key"))
    /\ Fails("Invalid Anthropic API key: invalid x-api-key")

\* C7: a 2xx answer with the provider's documented body makes dispatch return
\* success with the text at the provider's place in it; a 2xx answer makes
\* validate return success without reading the body.
C7_SuccessExtraction ==
    (Done /\ call.answered /\ ~call.net.rejects /\ call.net.ok) =>
      IF call.op = "validate"
      THEN /\ call.out.res.success
           /\ call.out.bodyReads = 0
      ELSE \A t \in Texts :
              call.net.json = ProviderBody(call.provider, JStr(t))
                => call.out.res = ApiResponse(TRUE, Undefined, JStr(t))

C7_Witness ==
    /\ Done /\ call.op = "send" /\ call.provider = "gemini"
    /\ call.net.ok /\ call.net.json = GeminiBody(JStr("hi there"))
    /\ call.out.res.data = JStr("hi there")

(***************************************************************************)
(* Properties of the shell, checked under Spec.                            *)
(***************************************************************************)
\* C8 (as claimed): at most one validateApiKey or sendPromptToLLM call is
\* outstanding at a time.
C8_OneCallAtATime == Len(validateCalls) + Len(sendCalls) <= 1

\* C8 (amended): at most one validateApiKey call and at most one
\* sendPromptToLLM call are outstanding at a time: no validate call starts
\* while a validate call is pending and no dispatch call starts while a
\* dispatch call is pending, but one of each may be pending together.
C8_OneCallOfEachKind == Len(validateCalls) <= 1 /\ Len(sendCalls) <= 1

C8_Witness == Len(validateCalls) = 1 /\ Len(sendCalls) = 1

\* C9 (as claimed): the credential of every started dispatch call is one that
\* a validate call succeeded for with the provider the dispatch call is given.
C9_KeyValidatedForProvider ==
    \A i \in DOMAIN sendCalls :
        <<sendCalls[i].provider, sendCalls[i].apiKey>> \in validated

\* C10: a busy flag is raised only by a click that starts a call (never by a
\* click that returns early), and the completion of the call lowers it
\* whatever the outcome; when a dispatch call completes exactly one of
\* response and errorMessage is non-empty.
C10_BusyFlagsReleased ==
    [][ /\ (isValidating' /\ ~isValidating) =>
              /\ validateCalls' = Append(validateCalls,
                                         [provider |-> provider, apiKey |-> apiKey])
              /\ ~IsBlank(apiKey)
        /\ (isLoading' /\ ~isLoading) =>
              /\ sendCalls' = Append(sendCalls,
                                     [provider |-> provider, model |-> model,
                                      apiKey |-> savedApiKey, prompt |-> prompt])
              /\ ~IsBlank(prompt) /\ savedApiKey # <<>>
        /\ Len(validateCalls') > Len(validateCalls) => isValidating'
        /\ Len(sendCalls') > Len(sendCalls) => isLoading'
        /\ Len(validateCalls') < Len(validateCalls) => ~isValidating'
        /\ Len(sendCalls') < Len(sendCalls) =>
              /\ ~isLoading'
              /\ Truthy(response') # Truthy(errorMessage')
      ]_vars

\* a dispatch call has completed on a 2xx body without text, a validate call
\* has completed on a failure, and both flags are down
C10_Witness ==
    /\ ~isLoading /\ sendCalls = <<>> /\ ~isValidating /\ validateCalls = <<>>
    /\ errorMessage = JStr("Unknown error occurred")
    /\ response = JStr("")
    /\ isValidKey = "false"

====
